---- MODULE Spec2Model ----
(***************************************************************************)
(* State-machine model of twistedsshclient: the SSHClient session core     *)
(* (host-key trust decision, success/failure callbacks, close request) and *)
(* the direct-tcpip channel adapter (DirectTcpIpChannelClient).            *)
(***************************************************************************)
EXTENDS Integers, Sequences, FiniteSets, TLC

(* ------------------------------ bounds --------------------------------- *)
MaxSessions == 2
MaxRecords == 2
MaxAdapters == 2
MaxOpens == 2
\* getPublicKey calls on one SSHUserAuthClient, and key files of each kind
MaxCalls == 5
MaxKeyFiles == 1

(* --------------------------- program constants -------------------------- *)
SSH_PORT == 22

(* ------------------------------ input sets ------------------------------ *)
Hostnames == {"hostA"}
Ports == {SSH_PORT, SSH_PORT + 1}
KeyTypes == {"ssh-rsa", "ssh-dss"}
\* host keys a server presents or a file holds: two RSA keys and one DSS key
Keys == {k \in [type : KeyTypes, data : {"A", "B"}] : k.type = "ssh-rsa" \/ k.data = "A"}
NoKey == [type |-> "none", data |-> ""]
Policies == {"AutoAddPolicy", "RejectPolicy", "WarningPolicy"}
Sessions == 1..MaxSessions

\* server_hostkey_name: hostname when port = 22, "[hostname]:port" otherwise
hostLabel(hostname, port) ==
    IF port = SSH_PORT
    THEN [bracket |-> FALSE, host |-> hostname, port |-> 0]
    ELSE [bracket |-> TRUE, host |-> hostname, port |-> port]

Labels == {hostLabel(h, p) : h \in Hostnames, p \in Ports}

(* ------------------------------ HostKeys -------------------------------- *)
\* HostKeys(): an empty store
EmptyHostKeys == [l \in Labels |-> [t \in KeyTypes |-> NoKey]]

\* store.get(label, {}).get(keytype, None)
get(store, label, keytype) == store[label][keytype]

\* store.add(hostname, keytype, key): one key per (label, type), new replaces old
add(store, label, keytype, key) == [store EXCEPT ![label][keytype] = key]

recordCount(store) ==
    Cardinality({<<l, t>> \in Labels \X KeyTypes : store[l][t] # NoKey})

(* ------------------------------ errors ---------------------------------- *)
NoExc == [type |-> "none", hostname |-> "", key |-> NoKey, expected_key |-> NoKey,
          code |-> 0]

BadHostKeyException(hostname, got_key, expected_key) ==
    [type |-> "BadHostKeyException", hostname |-> hostname, key |-> got_key,
     expected_key |-> expected_key, code |-> 0]

UnknownHostKeyException(hostname, got_key) ==
    [type |-> "UnknownHostKeyException", hostname |-> hostname, key |-> got_key,
     expected_key |-> NoKey, code |-> 0]

SSHRemoteErrorException(code) ==
    [type |-> "SSHRemoteErrorException", hostname |-> "", key |-> NoKey,
     expected_key |-> NoKey, code |-> code]

\* an exception of the runtime or of the network layer, not derived from SSHException
OtherError(name) ==
    [type |-> name, hostname |-> "", key |-> NoKey, expected_key |-> NoKey, code |-> 0]

\* isinstance(reason, SSHException) or reason.check(SSHException)
SSHException(reason) ==
    reason.type \in {"BadHostKeyException", "UnknownHostKeyException",
                     "SSHRemoteErrorException"}

(* ------------------------------ state ----------------------------------- *)
VARIABLES
    auth,
    system_host_keys,         \* SSHClient.system_host_keys
    host_keys,                \* SSHClient.host_keys (the local store)
    missing_host_key_policy,  \* SSHClient.missing_host_key_policy
    closeRequest,             \* callbacks of the current closeRequest Deferred, in order
    callback,                 \* SSHClient.callback is set
    errback,                  \* SSHClient.errback is set
    hostname,                 \* SSHClient.hostname
    port,                     \* SSHClient.port
    sessions,                 \* one record per connect(): factory, transport, services
                              \*   phase: how far the attempt has come
                              \*   host, port: the arguments of its connectTCP
                              \*   key: the host key its server presented
                              \*   asked: calls of the policy made for it
                              \*   cb, eb: calls of the success callback, and the
                              \*     errors the failure callback was called with
                              \*   reason: why its connection failed or was lost
                              \*   loseAsked: closeRequested asked it to close
    result,                   \* what the last handler did: outcome, error, calls made
    connector,                \* the DirectTcpIpChannelConnector of a forwarded connection
    adapters,                 \* its DirectTcpIpChannelClient objects, one per connect()
    parent,                   \* calls received by the parent SSHConnection and the factory
    raised,                   \* the error the last adapter handler raised, or "none"
    delivered                 \* the chunks the last adapter handler gave to the protocol

clientVars == <<system_host_keys, host_keys, missing_host_key_policy, closeRequest,
                callback, errback, hostname, port, sessions, result>>

adapterVars == <<connector, adapters, parent, raised, delivered>>

authVars == <<auth>>

vars == <<clientVars, adapterVars, authVars>>

NoHost == "none"

NoSession ==
    [phase |-> "unused", host |-> NoHost, port |-> 0, key |-> NoKey, asked |-> 0,
     cb |-> 0, eb |-> <<>>, reason |-> "none", loseAsked |-> FALSE,
     closedEarly |-> FALSE]

NoResult ==
    [op |-> "none", session |-> 0, key |-> NoKey, label |-> hostLabel(NoHost, SSH_PORT),
     outcome |-> "none", exc |-> NoExc, policyCalls |-> 0, events |-> <<>>,
     saves |-> <<>>]

Adapters == 1..MaxAdapters

\* no connector has been built yet
NoConnector ==
    [state |-> "none", loseconnection_on_protocollose |-> FALSE,
     loseconnection_on_protocolfailed |-> FALSE]

\* an adapter that has not been created yet; a created one has
\*   scheduled: the callLater(0, self._connect) has not run yet
\*   requested: openChannel was requested for it; opens: channelOpen calls received
\*   connected, disconnected: the flags of the class; connector: the attribute exists
\*   protocol: "None", "set" or "deleted"
\*   failedDefer, lostDefer: connectionFailedDefer / connectionLostDefer have fired
\*   failure: the error passed to connector.connectionFailed
\*   nFailed, nLost: calls of connector.connectionFailed / connectionLost
\*   pMade, pLost: calls of protocol.makeConnection / protocol.connectionLost
\*   notes: the calls made while the adapter was closed after its last open, in order
\*   log: the calls of connector.connect() and of the scheduled _connect, in order
\*   engineClosed: the connection has closed its channels and called closed()
NoAdapter ==
    [created |-> FALSE, scheduled |-> FALSE, requested |-> FALSE, opens |-> 0,
     connected |-> 0, disconnected |-> 0, connector |-> FALSE, protocol |-> "None",
     failedDefer |-> 0, lostDefer |-> 0, failure |-> "none",
     nFailed |-> 0, nLost |-> 0, pMade |-> 0, pLost |-> 0, notes |-> <<>>,
     log |-> <<>>, engineClosed |-> FALSE]

\* the parent SSHConnection and the factory of the connector
\*   loseConnection, stopTrying: calls received
\*   escaped: an error left transportProtocolDisconnected
\*   swallowed: transportProtocolDisconnected caught an error
\*   trying, retry: a reconnecting factory still retries, and has scheduled a retry
NoParent ==
    [loseConnection |-> 0, stopTrying |-> 0, escaped |-> FALSE, swallowed |-> FALSE,
     trying |-> TRUE, retry |-> FALSE]

\* what the objects around an adapter do when a handler calls them
\*   reenter: the protocol's connectionLost calls transport.loseConnection()
\*   loseRaises: the parent connection's loseConnection() raises
\*   stopRaises: the factory's stopTrying() raises, or the factory has none
\*   reconnecting: the factory schedules a retry in clientConnectionFailed/Lost
Envs ==
    [reenter : BOOLEAN, loseRaises : BOOLEAN, stopRaises : BOOLEAN,
     reconnecting : BOOLEAN]

\* the chunks of data the multiplexed connection delivers
Chunks == {"x", "y"}

\* surroundings in which nothing calls back and nothing raises
QuietEnv ==
    [reenter |-> FALSE, loseRaises |-> FALSE, stopRaises |-> FALSE,
     reconnecting |-> FALSE]

\* transport phases in which the TCP connection of the session is established
\* ("raised": an exception has left a handler and the reactor has yet to drop it)
Connected == {"kex", "verified", "raised", "auth", "started"}

\* private keys (keys.Key objects holding the private part) and no key
PrivateKeys == {[kind |-> "private", id |-> i] : i \in {1, 2}}
NoPKey == [kind |-> "none", id |-> 0]

\* keys.Key.public(): the key object holding only the public part
public(k) == [kind |-> "public", id |-> k.id]

\* SSHClient.password: not given, empty, or a password
Passwords == {"none", "", "secret"}

\* defer.succeed(v), and a plain return value
succeed(v) == [deferred |-> TRUE, value |-> v]
plain(v) == [deferred |-> FALSE, value |-> v]

\* the key files read in one place, in reading order
KeyFiles == UNION {[1..n -> PrivateKeys] : n \in 0..MaxKeyFiles}

\* the SSHUserAuthClient before it is constructed
\*   found_keys_iter: position in found_keys that cycle() yields next
\*   calls: number of getPublicKey calls;  op, returned: the last call and its value
\*   lastPublic: value of the last getPublicKey call
NoAuth ==
    [made |-> FALSE, password |-> "none", found_keys |-> <<>>, found_keys_iter |-> 1,
     current_pkey |-> NoPKey, calls |-> 0, op |-> "none", returned |-> plain(NoPKey),
     lastPublic |-> NoPKey]

\* SSHClient.__init__
Init ==
    /\ system_host_keys = EmptyHostKeys
    /\ host_keys = EmptyHostKeys
    /\ missing_host_key_policy = "RejectPolicy"
    /\ closeRequest = <<>>
    /\ callback = FALSE
    /\ errback = FALSE
    /\ hostname = NoHost
    /\ port = 0
    /\ sessions = [s \in Sessions |-> NoSession]
    /\ result = NoResult
    /\ connector = NoConnector
    /\ adapters = [a \in Adapters |-> NoAdapter]
    /\ parent = NoParent
    /\ raised = "none"
    /\ auth = NoAuth
    /\ delivered = <<>>

(* ------------------------------ policies -------------------------------- *)
\* AutoAddPolicy that accepts the key without storing it
missing_host_key_AutoAddForgets(policy, client_host_keys, label, key) ==
    CASE policy = "AutoAddPolicy" ->
           [status |-> "None", exc |-> NoExc, host_keys |-> client_host_keys,
            saves |-> <<>>]
      [] policy = "RejectPolicy" ->
           [status |-> "False", exc |-> NoExc, host_keys |-> client_host_keys,
            saves |-> <<>>]
      [] policy = "WarningPolicy" ->
           [status |-> "raise", exc |-> OtherError("NameError"),
            host_keys |-> client_host_keys, saves |-> <<>>]

\* RejectPolicy that logs and returns nothing instead of False
missing_host_key_RejectReturnsNone(policy, client_host_keys, label, key) ==
    CASE policy = "AutoAddPolicy" ->
           [status |-> "None", exc |-> NoExc,
            host_keys |-> add(client_host_keys, label, key.type, key),
            saves |-> <<>>]
      [] policy = "RejectPolicy" ->
           [status |-> "None", exc |-> NoExc, host_keys |-> client_host_keys,
            saves |-> <<>>]
      [] policy = "WarningPolicy" ->
           [status |-> "raise", exc |-> OtherError("NameError"),
            host_keys |-> client_host_keys, saves |-> <<>>]

\* MissingHostKeyPolicy.missing_host_key of the three policies: the value returned
\* ("None", "False") or "raise" with the error raised, the local store afterwards,
\* and the store contents it wrote to the local host-key file (saves): no policy
\* writes the file
missing_host_key(policy, client_host_keys, label, key) ==
    CASE policy = "AutoAddPolicy" ->
           [status |-> "None", exc |-> NoExc,
            host_keys |-> add(client_host_keys, label, key.type, key),
            saves |-> <<>>]
      [] policy = "RejectPolicy" ->
           [status |-> "False", exc |-> NoExc, host_keys |-> client_host_keys,
            saves |-> <<>>]
      [] policy = "WarningPolicy" ->
           \* policies.py never imports warnings: warnings.warn raises NameError
           [status |-> "raise", exc |-> OtherError("NameError"),
            host_keys |-> client_host_keys, saves |-> <<>>]

(* --------------------------- factory handlers --------------------------- *)
\* Each handler yields the session's record afterwards (sess) and the calls it made,
\* in order (events).

\* SSHClient.processCallback
processCallback(sess) ==
    IF callback
    THEN [sess |-> [sess EXCEPT !.cb = @ + 1], events |-> <<"processCallback", "callback">>]
    ELSE [sess |-> sess, events |-> <<"processCallback">>]

\* SSHClient.processErrback
processErrback(sess, reason) ==
    IF errback
    THEN [sess |-> [sess EXCEPT !.eb = Append(@, reason.type)],
          events |-> <<"processErrback", "errback">>]
    ELSE [sess |-> sess, events |-> <<"processErrback">>]

\* a factory that lets the base class handle the event before the errback
clientConnectionLost_BaseFirst(sess, reason) ==
    LET told == IF SSHException(reason) THEN processErrback(sess, reason)
                ELSE [sess |-> sess, events |-> <<>>]
    IN  [sess |-> [told.sess EXCEPT !.phase = "lost", !.reason = reason.type],
         events |-> <<"super.clientConnectionLost">> \o told.events]

\* SSHClientSpecializedFactory.clientConnectionLost
clientConnectionLost(sess, reason) ==
    LET told == IF SSHException(reason) THEN processErrback(sess, reason)
                ELSE [sess |-> sess, events |-> <<>>]
    IN  [sess |-> [told.sess EXCEPT !.phase = "lost", !.reason = reason.type],
         events |-> told.events \o <<"super.clientConnectionLost">>]

\* SSHClientSpecializedFactory.clientConnectionFailed
clientConnectionFailed(sess, reason) ==
    LET told == IF SSHException(reason) THEN processErrback(sess, reason)
                ELSE [sess |-> sess, events |-> <<>>]
    IN  [sess |-> [told.sess EXCEPT !.phase = "failed", !.reason = reason.type],
         events |-> told.events \o <<"super.clientConnectionFailed">>]

\* a transport that only notes the request and closes on a later reactor turn
transportConnectionLost_Later(sess, reason) ==
    [sess |-> sess, events |-> <<>>]

\* self.transport.connectionLost(reason) on the TCP transport of a session: an
\* established transport closes and tells its connector, which tells the factory;
\* a transport that is already closed ignores the call
transportConnectionLost(sess, reason) ==
    IF sess.phase \in Connected
    THEN LET f == clientConnectionLost(sess, reason)
         IN  [sess |-> f.sess, events |-> <<"transport.connectionLost">> \o f.events]
    ELSE [sess |-> sess, events |-> <<"transport.connectionLost">>]

(* --------------------------- host key verification ---------------------- *)
\* a lookup that consults the local store first
lookup_LocalFirst(system, local, label, keytype) ==
    LET our_server_key == get(local, label, keytype)
    IN  IF our_server_key = NoKey THEN get(system, label, keytype) ELSE our_server_key

\* the lookup of verifyHostKey: system store, then local store
lookup(system, local, label, keytype) ==
    LET our_server_key == get(system, label, keytype)
    IN  IF our_server_key = NoKey THEN get(local, label, keytype) ELSE our_server_key

\* a comparison of the key types alone
keyNe_TypeOnly(a, b) == a.type # b.type

\* server_key != our_server_key
keyNe(a, b) == a # b

\* SSHClientTransport.verifyHostKey, up to its calls on the transport: its outcome
\* ("succeed" = defer.succeed(1), "fail" = defer.fail(0), "raise" = an exception
\* leaves the method), the failure handed to transport.connectionLost, the local
\* store afterwards and the number of calls of the policy
verify(server_key) ==
    LET keytype == server_key.type
        server_hostkey_name == hostLabel(hostname, port)
        found == lookup(system_host_keys, host_keys, server_hostkey_name, keytype)
        pol == missing_host_key(missing_host_key_policy, host_keys,
                                server_hostkey_name, server_key)
        asked == found = NoKey
        our_server_key == IF asked THEN server_key ELSE found
        base == [label |-> server_hostkey_name, policyCalls |-> IF asked THEN 1 ELSE 0,
                 host_keys |-> IF asked THEN pol.host_keys ELSE host_keys,
                 saves |-> IF asked THEN pol.saves ELSE <<>>]
    IN  IF asked /\ pol.status = "raise"
        THEN base @@ [outcome |-> "raise", lost |-> FALSE, exc |-> pol.exc]
        ELSE IF asked /\ pol.status = "False"
        THEN base @@ [outcome |-> "fail", lost |-> TRUE,
                      exc |-> UnknownHostKeyException(hostname, server_key)]
        ELSE IF keyNe(server_key, our_server_key)
        THEN base @@ [outcome |-> "fail", lost |-> TRUE,
                      exc |-> BadHostKeyException(hostname, server_key, our_server_key)]
        ELSE base @@ [outcome |-> "succeed", lost |-> FALSE, exc |-> NoExc]

\* SSHClientTransport.verifyHostKey, called by the key exchange of session s
verifyHostKey(s, hostKey) ==
    /\ sessions[s].phase = "kex"
    /\ LET v == verify(hostKey)
           sess == [sessions[s] EXCEPT !.key = hostKey, !.asked = @ + v.policyCalls]
           torn == IF v.lost THEN transportConnectionLost(sess, v.exc)
                   ELSE [sess |-> sess, events |-> <<>>]
           after == CASE v.outcome = "succeed" -> [torn.sess EXCEPT !.phase = "verified"]
                      [] v.outcome = "raise" -> [torn.sess EXCEPT !.phase = "raised"]
                      [] OTHER -> torn.sess
       IN  /\ host_keys' = v.host_keys
           /\ sessions' = [sessions EXCEPT ![s] = after]
           /\ result' = [op |-> "verifyHostKey", session |-> s, key |-> hostKey,
                         label |-> v.label, outcome |-> v.outcome, exc |-> v.exc,
                         policyCalls |-> v.policyCalls, saves |-> v.saves,
                         events |-> (IF v.policyCalls = 1 THEN <<"missing_host_key">>
                                     ELSE <<>>)
                                    \o torn.events \o <<v.outcome>>]
    /\ UNCHANGED <<adapterVars, authVars>>
    /\ UNCHANGED <<system_host_keys, missing_host_key_policy, closeRequest, callback,
                   errback, hostname, port>>

(* ------------------------------ SSHClient ------------------------------- *)
usedSessions == {s \in Sessions : sessions[s].phase # "unused"}

Result(op, s, events) ==
    [NoResult EXCEPT !.op = op, !.session = s, !.events = events]

\* SSHClient.load_system_host_keys: one record of the file read is merged
load_system_host_keys(label, key) ==
    /\ recordCount(system_host_keys) + recordCount(host_keys) < MaxRecords
    /\ system_host_keys' = add(system_host_keys, label, key.type, key)
    /\ result' = NoResult
    /\ UNCHANGED <<adapterVars, authVars>>
    /\ UNCHANGED <<host_keys, missing_host_key_policy, closeRequest, callback, errback,
                   hostname, port, sessions>>

\* SSHClient.load_host_keys: one record of the file read is merged
load_host_keys(label, key) ==
    /\ recordCount(system_host_keys) + recordCount(host_keys) < MaxRecords
    /\ host_keys' = add(host_keys, label, key.type, key)
    /\ result' = NoResult
    /\ UNCHANGED <<adapterVars, authVars>>
    /\ UNCHANGED <<system_host_keys, missing_host_key_policy, closeRequest, callback,
                   errback, hostname, port, sessions>>

\* SSHClient.set_missing_host_key_policy
set_missing_host_key_policy(policy) ==
    /\ missing_host_key_policy # policy
    /\ missing_host_key_policy' = policy
    /\ result' = NoResult
    /\ UNCHANGED <<adapterVars, authVars>>
    /\ UNCHANGED <<system_host_keys, host_keys, closeRequest, callback, errback,
                   hostname, port, sessions>>

\* SSHClient.addCallback
addCallback ==
    /\ ~callback
    /\ callback' = TRUE
    /\ result' = NoResult
    /\ UNCHANGED <<adapterVars, authVars>>
    /\ UNCHANGED <<system_host_keys, host_keys, missing_host_key_policy, closeRequest,
                   errback, hostname, port, sessions>>

\* SSHClient.addErrback
addErrback ==
    /\ ~errback
    /\ errback' = TRUE
    /\ result' = NoResult
    /\ UNCHANGED <<adapterVars, authVars>>
    /\ UNCHANGED <<system_host_keys, host_keys, missing_host_key_policy, closeRequest,
                   callback, hostname, port, sessions>>

\* SSHClient.removeCallback
removeCallback ==
    /\ callback
    /\ callback' = FALSE
    /\ result' = NoResult
    /\ UNCHANGED <<adapterVars, authVars>>
    /\ UNCHANGED <<system_host_keys, host_keys, missing_host_key_policy, closeRequest,
                   errback, hostname, port, sessions>>

\* SSHClient.removeErrback
removeErrback ==
    /\ errback
    /\ errback' = FALSE
    /\ result' = NoResult
    /\ UNCHANGED <<adapterVars, authVars>>
    /\ UNCHANGED <<system_host_keys, host_keys, missing_host_key_policy, closeRequest,
                   callback, hostname, port, sessions>>

\* SSHClient.connect: the parameters are stored on the client and connectTCP starts
\* a new attempt with a new factory
connect(h, p) ==
    /\ Cardinality(usedSessions) < MaxSessions
    /\ LET s == Cardinality(usedSessions) + 1
       IN  /\ sessions' = [sessions EXCEPT ![s] =
                  [NoSession EXCEPT !.phase = "connecting", !.host = h, !.port = p]]
           /\ result' = Result("connect", s, <<"connectTCP">>)
    /\ hostname' = h
    /\ port' = p
    /\ UNCHANGED <<adapterVars, authVars>>
    /\ UNCHANGED <<system_host_keys, host_keys, missing_host_key_policy, closeRequest,
                   callback, errback>>

\* SSHClientSpecializedFactory.buildProtocol: the TCP connection of session s is
\* established and its SSHClientTransport starts the key exchange
buildProtocol(s) ==
    /\ sessions[s].phase = "connecting"
    /\ sessions' = [sessions EXCEPT ![s].phase = "kex"]
    /\ result' = Result("buildProtocol", s, <<"super.buildProtocol">>)
    /\ UNCHANGED <<adapterVars, authVars>>
    /\ UNCHANGED <<system_host_keys, host_keys, missing_host_key_policy, closeRequest,
                   callback, errback, hostname, port>>

\* reasons the network layer gives for a TCP connect that fails
ConnectFailures == {OtherError("ConnectionRefusedError"), OtherError("TimeoutError")}

\* reasons the network layer gives when an established connection ends
ConnectionEnds == {OtherError("ConnectionDone"), OtherError("ConnectionLost")}

\* the TCP connect of session s fails: the connector calls clientConnectionFailed
connectionFailed(s, reason) ==
    /\ sessions[s].phase = "connecting"
    /\ LET f == clientConnectionFailed(sessions[s], reason)
       IN  /\ sessions' = [sessions EXCEPT ![s] = f.sess]
           /\ result' = [Result("connectionFailed", s, f.events) EXCEPT !.exc = reason]
    /\ UNCHANGED <<adapterVars, authVars>>
    /\ UNCHANGED <<system_host_keys, host_keys, missing_host_key_policy, closeRequest,
                   callback, errback, hostname, port>>

\* the TCP connection of session s ends (closed by either side, or dropped by the
\* reactor after an exception left a handler): the connector calls clientConnectionLost
connectionLost(s, reason) ==
    /\ sessions[s].phase \in Connected
    /\ (sessions[s].phase = "raised") = (reason = OtherError("NameError"))
    /\ LET f == clientConnectionLost(sessions[s], reason)
       IN  /\ sessions' = [sessions EXCEPT ![s] = f.sess]
           /\ result' = [Result("connectionLost", s, f.events) EXCEPT !.exc = reason]
    /\ UNCHANGED <<adapterVars, authVars>>
    /\ UNCHANGED <<system_host_keys, host_keys, missing_host_key_policy, closeRequest,
                   callback, errback, hostname, port>>

\* SSHClientTransport.connectionSecure
connectionSecure(s) ==
    /\ sessions[s].phase = "verified"
    /\ closeRequest' = Append(closeRequest, s)
    /\ sessions' = [sessions EXCEPT ![s].phase = "auth"]
    /\ result' = Result("connectionSecure", s, <<"closeRequest.addCallback", "requestService">>)
    /\ UNCHANGED <<adapterVars, authVars>>
    /\ UNCHANGED <<system_host_keys, host_keys, missing_host_key_policy, callback,
                   errback, hostname, port>>

\* SSHConnection.serviceStarted: authentication succeeded
serviceStarted(s) ==
    /\ sessions[s].phase = "auth"
    /\ LET f == processCallback(sessions[s])
       IN  /\ sessions' = [sessions EXCEPT ![s] = [f.sess EXCEPT !.phase = "started"]]
           /\ result' = Result("serviceStarted", s, f.events)
    /\ UNCHANGED <<adapterVars, authVars>>
    /\ UNCHANGED <<system_host_keys, host_keys, missing_host_key_policy, closeRequest,
                   callback, errback, hostname, port>>

\* disconnect reason codes a server sends (DISCONNECT_PROTOCOL_ERROR,
\* DISCONNECT_BY_APPLICATION)
ReasonCodes == {2, 11}

\* SSHClientTransport.receiveError
receiveError(s, reasonCode) ==
    /\ sessions[s].phase \in Connected \ {"raised"}
    /\ LET reason == SSHRemoteErrorException(reasonCode)
           f == transportConnectionLost(sessions[s], reason)
       IN  /\ sessions' = [sessions EXCEPT ![s] = f.sess]
           /\ result' = [Result("receiveError", s, f.events) EXCEPT !.exc = reason]
    /\ UNCHANGED <<adapterVars, authVars>>
    /\ UNCHANGED <<system_host_keys, host_keys, missing_host_key_policy, closeRequest,
                   callback, errback, hostname, port>>

\* SSHClientTransport.closeRequested(result) of session s; it returns None
closeRequested(all, s, res) ==
    IF res THEN [all EXCEPT ![s].loseAsked = TRUE] ELSE all

\* Deferred.callback: the callbacks run in the order added, each with the value the
\* one before it returned (closeRequested returns None, which is false)
RECURSIVE runCallbacks(_, _, _)
runCallbacks(callbacks, res, all) ==
    IF callbacks = <<>> THEN all
    ELSE runCallbacks(Tail(callbacks), FALSE, closeRequested(all, Head(callbacks), res))

\* phases of a session between connect() and connectionSecure
Unsecured == {"connecting", "kex", "verified"}

\* SSHClient.close; closedEarly notes the sessions whose transport was not secure
\* when close() was called
close ==
    /\ sessions' = [s \in Sessions |->
           [runCallbacks(closeRequest, TRUE, sessions)[s] EXCEPT
               !.closedEarly = @ \/ sessions[s].phase \in Unsecured]]
    /\ closeRequest' = <<>>
    /\ result' = [Result("close", 0, <<"closeRequest.callback">>) EXCEPT !.outcome = "return"]
    /\ UNCHANGED <<adapterVars, authVars>>
    /\ UNCHANGED <<system_host_keys, host_keys, missing_host_key_policy, callback,
                   errback, hostname, port>>

(* --------------------------- specifications ---------------------------- *)
\* The application configures the client (stores, policy, callbacks) before its
\* first connect().
configuring == usedSessions = {}

\* no connection attempt is waiting for its TCP connection or its host-key check
idle == \A s \in Sessions : sessions[s].phase \notin {"connecting", "kex"}

\* The session life cycle: a client with a local store and the default policy, any
\* number of overlapping connect() calls, and every event of a session.
Next ==
    \/ \E l \in Labels, k \in Keys : configuring /\ load_host_keys(l, k)
    \/ configuring /\ addCallback
    \/ configuring /\ addErrback
    \/ configuring /\ removeCallback
    \/ configuring /\ removeErrback
    \/ \E h \in Hostnames, p \in Ports : connect(h, p)
    \/ \E s \in Sessions : buildProtocol(s)
    \/ \E s \in Sessions, r \in ConnectFailures : connectionFailed(s, r)
    \/ \E s \in Sessions, k \in Keys : verifyHostKey(s, k)
    \/ \E s \in Sessions : connectionSecure(s)
    \/ \E s \in Sessions : serviceStarted(s)
    \/ \E s \in Sessions, c \in ReasonCodes : receiveError(s, c)
    \/ \E s \in Sessions, r \in ConnectionEnds : connectionLost(s, r)
    \/ close

Spec == Init /\ [][Next]_vars

\* The trust decision: both stores, every policy, one connection attempt at a time.
NextTrust ==
    \/ \E l \in Labels, k \in Keys : configuring /\ load_system_host_keys(l, k)
    \/ \E l \in Labels, k \in Keys : configuring /\ load_host_keys(l, k)
    \/ \E p \in Policies : configuring /\ set_missing_host_key_policy(p)
    \/ configuring /\ addErrback
    \/ \E h \in Hostnames, p \in Ports : idle /\ connect(h, p)
    \/ \E s \in Sessions : buildProtocol(s)
    \/ \E s \in Sessions, k \in Keys : verifyHostKey(s, k)
    \/ \E s \in Sessions : connectionLost(s, OtherError("NameError"))

SpecTrust == Init /\ [][NextTrust]_vars

\* The factory handlers: the failure callback set and removed at any time, one
\* connection attempt at a time, and every way a connection fails or ends.
NextFactory ==
    \/ addErrback
    \/ removeErrback
    \/ \E h \in Hostnames, p \in Ports : idle /\ connect(h, p)
    \/ \E s \in Sessions : buildProtocol(s)
    \/ \E s \in Sessions, r \in ConnectFailures : connectionFailed(s, r)
    \/ \E s \in Sessions, k \in Keys : verifyHostKey(s, k)
    \/ \E s \in Sessions, c \in ReasonCodes : receiveError(s, c)
    \/ \E s \in Sessions, r \in ConnectionEnds : connectionLost(s, r)

SpecFactory == Init /\ [][NextFactory]_vars

(* ===================== direct-tcpip channel adapter ===================== *)
\* A handler of the adapter works on w: the connector (c), the adapter (ad), the
\* calls received by the parent connection and the factory (parent) and the error
\* the handler has raised so far (raised); once an error is raised the rest of the
\* handler does not run.

\* connector.connectionFailed / connector.connectionLost tell the factory, and a
\* reconnecting factory that still retries schedules connector.connect()
factoryNotified(w) ==
    IF w.env.reconnecting /\ w.parent.trying
    THEN [w EXCEPT !.parent.retry = TRUE]
    ELSE w

\* DirectTcpIpChannelConnector.transportProtocolDisconnected(obj)
\* connection.loseConnection() stands outside the try: its error leaves the step
\* and stopTrying is not reached; an error of stopTrying is caught
transportProtocolDisconnected(w, obj) ==
    IF ~obj THEN w
    ELSE LET called == [w EXCEPT !.parent.loseConnection = @ + 1]
         IN  IF w.env.loseRaises
             THEN [called EXCEPT !.parent.escaped = TRUE]
             ELSE IF w.env.stopRaises
                  THEN [called EXCEPT !.parent.stopTrying = @ + 1,
                                      !.parent.swallowed = TRUE]
                  ELSE [called EXCEPT !.parent.stopTrying = @ + 1,
                                      !.parent.trying = FALSE,
                                      !.parent.retry = FALSE]

\* connectionFailedDefer with transportProtocolDisconnected added whatever the flag
fireFailedDefer_Always(w) ==
    IF w.ad.failedDefer = 1 THEN [w EXCEPT !.raised = "AlreadyCalledError"]
    ELSE transportProtocolDisconnected([w EXCEPT !.ad.failedDefer = 1], TRUE)

\* connectionFailedDefer.callback(1): a Deferred fires once, a second callback()
\* raises AlreadyCalledError; _makeTransport added transportProtocolDisconnected to
\* it when loseconnection_on_protocolfailed is set
fireFailedDefer(w) ==
    IF w.ad.failedDefer = 1 THEN [w EXCEPT !.raised = "AlreadyCalledError"]
    ELSE LET fired == [w EXCEPT !.ad.failedDefer = 1]
         IN  IF w.c.loseconnection_on_protocolfailed
             THEN transportProtocolDisconnected(fired, TRUE)
             ELSE fired

\* connectionLostDefer that runs its callbacks on every callback(1)
fireLostDefer_EveryTime(w) ==
    LET fired == [w EXCEPT !.ad.lostDefer = 1]
    IN  IF w.c.loseconnection_on_protocollose
        THEN transportProtocolDisconnected(fired, TRUE)
        ELSE fired

\* connectionLostDefer.callback(1), with the callback _makeTransport added when
\* loseconnection_on_protocollose is set
fireLostDefer(w) ==
    IF w.ad.lostDefer = 1 THEN [w EXCEPT !.raised = "AlreadyCalledError"]
    ELSE LET fired == [w EXCEPT !.ad.lostDefer = 1]
         IN  IF w.c.loseconnection_on_protocollose
             THEN transportProtocolDisconnected(fired, TRUE)
             ELSE fired

\* failIfNotConnected without the test of self.disconnected
failIfNotConnected_AfterLoss(w, err) ==
    IF w.ad.connected = 1 \/ ~w.ad.connector
    THEN w
    ELSE fireFailedDefer(factoryNotified(
             [w EXCEPT !.c.state = "disconnected",
                       !.ad.nFailed = @ + 1,
                       !.ad.failure = IF @ = "none" THEN err ELSE @,
                       !.ad.connector = FALSE]))

\* DirectTcpIpChannelClient.failIfNotConnected(err): connector.connectionFailed,
\* del self.connector, connectionFailedDefer.callback(1)
failIfNotConnected(w, err) ==
    IF w.ad.connected = 1 \/ w.ad.disconnected = 1 \/ ~w.ad.connector
    THEN w
    ELSE fireFailedDefer(factoryNotified(
             [w EXCEPT !.c.state = "disconnected",
                       !.ad.nFailed = @ + 1,
                       !.ad.failure = IF @ = "none" THEN err ELSE @,
                       !.ad.connector = FALSE]))

\* DirectTcpIpChannelClient.connectionLost(reason)
\* connectionLost that leaves self.connected set
adapterConnectionLost_StaysConnected(w) ==
    IF w.ad.connected # 1
    THEN failIfNotConnected(w, "ConnectError")
    ELSE fireLostDefer(factoryNotified(
                       [w EXCEPT !.ad.disconnected = 1,
                                 !.ad.protocol = "deleted",
                                 !.ad.pLost = @ + 1,
                                 !.ad.nLost = @ + 1,
                                 !.ad.notes = @ \o <<"protocol.connectionLost",
                                                     "connector.connectionLost">>,
                                 !.c.state = "disconnected"]))

\* protocol.connectionLost(reason) may call loseConnection() of the adapter again:
\* the flags are already set, so that call ends in failIfNotConnected
adapterConnectionLost(w) ==
    IF w.ad.connected # 1
    THEN failIfNotConnected(w, "ConnectError")
    ELSE LET told == [w EXCEPT !.ad.disconnected = 1,
                               !.ad.connected = 0,
                               !.ad.protocol = "deleted",
                               !.ad.pLost = @ + 1,
                               !.ad.notes = Append(@, "protocol.connectionLost")]
             back == IF w.env.reenter
                     THEN failIfNotConnected(
                              [told EXCEPT !.ad.notes = Append(@, "loseConnection")],
                              "ConnectError")
                     ELSE told
         IN  fireLostDefer(factoryNotified(
                 [back EXCEPT !.ad.nLost = @ + 1,
                              !.ad.notes = Append(@, "connector.connectionLost"),
                              !.c.state = "disconnected"]))

\* _connectDone that builds a protocol without asking the connector
connectDone_WithoutConnector(w) ==
    [w EXCEPT !.ad.protocol = "set",
              !.ad.connected = 1,
              !.ad.disconnected = 0,
              !.ad.pMade = @ + 1,
              !.ad.notes = <<>>]

\* DirectTcpIpChannelClient._connectDone: without the connector attribute the first
\* line raises AttributeError
connectDone(w) ==
    IF ~w.ad.connector
    THEN [w EXCEPT !.raised = "AttributeError"]
    ELSE [w EXCEPT !.c.state = "connected",
                   !.ad.protocol = "set",
                   !.ad.connected = 1,
                   !.ad.disconnected = 0,
                   !.ad.pMade = @ + 1,
                   !.ad.notes = <<>>]

\* DirectTcpIpChannelClient.loseConnection: SSHChannel.loseConnection sends the
\* close of the channel, which the engine may refuse with an error for a channel
\* it has not opened (engineOk = FALSE); then connectionLost(CONNECTION_DONE)
adapterLoseConnection(w, engineOk) ==
    IF engineOk THEN adapterConnectionLost(w) ELSE [w EXCEPT !.raised = "KeyError"]

\* the objects a handler of adapter a works on, in the surroundings env
world(a, env) ==
    [c |-> connector, ad |-> adapters[a], parent |-> parent, raised |-> "none",
     delivered |-> <<>>, env |-> env]

\* the state after a handler of adapter a ended in w
becomes(a, w) ==
    /\ connector' = w.c
    /\ adapters' = [adapters EXCEPT ![a] = w.ad]
    /\ parent' = w.parent
    /\ raised' = w.raised
    /\ delivered' = w.delivered
    /\ UNCHANGED <<clientVars, authVars>>

createdAdapters == {a \in Adapters : adapters[a].created}

\* an adapter whose creation asks the connection to open the channel at once
newAdapter_Synchronous ==
    [NoAdapter EXCEPT !.created = TRUE, !.requested = TRUE, !.connector = TRUE,
                      !.log = <<"_makeTransport", "openChannel", "startedConnecting">>]

\* the adapter when connector.connect() returns: _makeTransport has built it, its
\* __init__ has scheduled _connect, and then factory.startedConnecting was called
newAdapter ==
    [NoAdapter EXCEPT !.created = TRUE, !.scheduled = TRUE, !.connector = TRUE,
                      !.log = <<"_makeTransport", "startedConnecting">>]

\* DirectTcpIpChannelConnector.connect -> _makeTransport: a new adapter, whose
\* __init__ schedules _connect
makeTransport ==
    /\ connector.state = "disconnected"
    /\ Cardinality(createdAdapters) < MaxAdapters
    /\ LET a == Cardinality(createdAdapters) + 1
       IN  adapters' = [adapters EXCEPT ![a] = newAdapter]
    /\ connector' = [connector EXCEPT !.state = "connecting"]
    /\ raised' = "none"
    /\ delivered' = <<>>
    /\ UNCHANGED <<parent, clientVars, authVars>>

\* SSHConnection.connectTCP: the connector is built with its two flags and connects
connectTCP(onLose, onFailed) ==
    /\ connector.state = "none"
    /\ connector' = [state |-> "connecting", loseconnection_on_protocollose |-> onLose,
                     loseconnection_on_protocolfailed |-> onFailed]
    /\ adapters' = [adapters EXCEPT ![1] = newAdapter]
    /\ raised' = "none"
    /\ delivered' = <<>>
    /\ UNCHANGED <<parent, clientVars, authVars>>

\* DirectTcpIpChannelClient._connect, run by the reactor
runConnect(a) ==
    /\ adapters[a].scheduled
    /\ LET w == [world(a, QuietEnv) EXCEPT !.ad.scheduled = FALSE]
       IN  becomes(a, IF ~w.ad.connector THEN [w EXCEPT !.raised = "AttributeError"]
                      ELSE [w EXCEPT !.ad.requested = TRUE,
                                     !.ad.log = Append(@, "openChannel")])

\* DirectTcpIpChannelClient.dataReceived for a channel the connection knows:
\* without a protocol, self.protocol.dataReceived raises AttributeError
dataReceived(a, data) ==
    /\ adapters[a].requested
    /\ LET w == world(a, QuietEnv)
       IN  becomes(a, IF w.ad.disconnected = 1 THEN w
                      ELSE IF w.ad.protocol = "set"
                           THEN [w EXCEPT !.delivered = Append(@, data)]
                           ELSE [w EXCEPT !.raised = "AttributeError"])

\* DirectTcpIpChannelClient.channelOpen
channelOpen(a) ==
    /\ adapters[a].requested
    /\ adapters[a].opens < MaxOpens
    /\ becomes(a, connectDone([world(a, QuietEnv) EXCEPT !.ad.opens = @ + 1]))

\* DirectTcpIpChannelClient.openFailed
openFailed(a, env) ==
    /\ adapters[a].requested
    /\ becomes(a, failIfNotConnected(world(a, env), "ConnectError"))

\* stopConnecting that goes the way of a lost connection
stopConnecting_AsLoss(a, env) ==
    /\ adapters[a].created
    /\ becomes(a, adapterConnectionLost(world(a, env)))

\* the timeout going the way of a lost connection
timeout_AsLoss(a, env) ==
    /\ adapters[a].created
    /\ becomes(a, adapterConnectionLost(world(a, env)))

\* DirectTcpIpChannelClient.stopConnecting
stopConnecting(a, env) ==
    /\ adapters[a].created
    /\ becomes(a, failIfNotConnected(world(a, env), "UserError"))

\* the timeout the connector scheduled: transport.failIfNotConnected(TimeoutError())
timeout(a, env) ==
    /\ adapters[a].created
    /\ becomes(a, failIfNotConnected(world(a, env), "TimeoutError"))

\* DirectTcpIpChannelClient.eofReceived
eofReceived(a, env) ==
    /\ adapters[a].opens > 0
    /\ becomes(a, adapterLoseConnection(world(a, env), TRUE))

\* DirectTcpIpChannelClient.loseConnection
loseConnection(a, engineOk, env) ==
    /\ adapters[a].created
    /\ adapters[a].opens > 0 => engineOk
    /\ becomes(a, adapterLoseConnection(world(a, env), engineOk))

\* DirectTcpIpChannelClient.connectionLost, called directly
channelConnectionLost(a, env) ==
    /\ adapters[a].created
    /\ becomes(a, adapterConnectionLost(world(a, env)))

\* surroundings in which the parent connection and the factory do not raise
Reentering == {env \in Envs : ~env.loseRaises /\ ~env.stopRaises /\ ~env.reconnecting}

\* the adapter of the connector's latest connect(); the channels of earlier attempts
\* have ended and the connection delivers nothing more to them
Latest == {a \in Adapters : a = Cardinality(createdAdapters)}

NextAdapter ==
    \/ \E onLose \in BOOLEAN, onFailed \in BOOLEAN : connectTCP(onLose, onFailed)
    \/ makeTransport
    \/ \E a \in Latest : runConnect(a)
    \/ \E a \in Latest : channelOpen(a)
    \/ \E a \in Latest : openFailed(a, QuietEnv)
    \/ \E a \in Latest : stopConnecting(a, QuietEnv)
    \/ \E a \in Latest : timeout(a, QuietEnv)
    \/ \E a \in Latest, env \in Reentering : eofReceived(a, env)
    \/ \E a \in Latest, ok \in BOOLEAN, env \in Reentering : loseConnection(a, ok, env)
    \/ \E a \in Latest, env \in Reentering : channelConnectionLost(a, env)

SpecAdapter == Init /\ [][NextAdapter]_vars

\* the retry a reconnecting factory scheduled: connector.connect()
retry ==
    /\ parent.retry
    /\ connector.state = "disconnected"
    /\ Cardinality(createdAdapters) < MaxAdapters
    /\ LET a == Cardinality(createdAdapters) + 1
       IN  adapters' = [adapters EXCEPT ![a] = newAdapter]
    /\ connector' = [connector EXCEPT !.state = "connecting"]
    /\ parent' = [parent EXCEPT !.retry = FALSE]
    /\ raised' = "none"
    /\ delivered' = <<>>
    /\ UNCHANGED <<clientVars, authVars>>

\* the parent connection stops and closes the channel of adapter a:
\* SSHChannel.closed only logs, and the adapter does not override it
closed(a) ==
    /\ adapters[a].requested
    /\ ~adapters[a].engineClosed
    /\ becomes(a, [world(a, QuietEnv) EXCEPT !.ad.engineClosed = TRUE])

\* the adapter life cycle and the end of the parent connection
NextEngine ==
    \/ NextAdapter
    \/ \E a \in Latest : closed(a)

SpecEngine == Init /\ [][NextEngine]_vars

\* surroundings with a reconnecting factory
Reconnecting == {env \in Envs : env.reconnecting /\ ~env.reenter /\ ~env.stopRaises}

\* the adapter life cycle with a reconnecting factory
NextReconnect ==
    \/ \E onLose \in BOOLEAN, onFailed \in BOOLEAN : connectTCP(onLose, onFailed)
    \/ retry
    \/ \E a \in Latest : runConnect(a)
    \/ \E a \in Latest : channelOpen(a)
    \/ \E a \in Latest, env \in Reconnecting : openFailed(a, env)
    \/ \E a \in Latest, env \in Reconnecting : stopConnecting(a, env)
    \/ \E a \in Latest, env \in Reconnecting : timeout(a, env)
    \/ \E a \in Latest, env \in Reconnecting : eofReceived(a, env)
    \/ \E a \in Latest, ok \in BOOLEAN, env \in Reconnecting : loseConnection(a, ok, env)
    \/ \E a \in Latest, env \in Reconnecting : channelConnectionLost(a, env)

SpecReconnect == Init /\ [][NextReconnect]_vars

\* the adapter life cycle together with the data the connection delivers
NextData ==
    \/ NextAdapter
    \/ \E a \in Latest, data \in Chunks : dataReceived(a, data)

SpecData == Init /\ [][NextData]_vars

\* the adapter life cycle with a parent connection and a factory that may raise
\* surroundings with a factory that does not reconnect
Raising == {env \in Envs : ~env.reconnecting}

NextPropagate ==
    \/ \E onLose \in BOOLEAN, onFailed \in BOOLEAN : connectTCP(onLose, onFailed)
    \/ makeTransport
    \/ \E a \in Latest : runConnect(a)
    \/ \E a \in Latest : channelOpen(a)
    \/ \E a \in Latest, env \in Raising : openFailed(a, env)
    \/ \E a \in Latest, env \in Raising : stopConnecting(a, env)
    \/ \E a \in Latest, env \in Raising : timeout(a, env)
    \/ \E a \in Latest, env \in Raising : eofReceived(a, env)
    \/ \E a \in Latest, ok \in BOOLEAN, env \in Raising : loseConnection(a, ok, env)
    \/ \E a \in Latest, env \in Raising : channelConnectionLost(a, env)

SpecPropagate == Init /\ [][NextPropagate]_vars

\* C10: for every adapter, over any sequence of channelOpen, openFailed,
\* stopConnecting, timeout, eofReceived, loseConnection and connectionLost, the
\* signals connectionFailedDefer and connectionLostDefer each fire at most once and
\* never both.
C10_SignalsExclusive ==
    \A a \in Adapters :
        /\ adapters[a].failedDefer <= 1
        /\ adapters[a].lostDefer <= 1
        /\ adapters[a].failedDefer + adapters[a].lostDefer <= 1
        /\ adapters[a].nFailed = adapters[a].failedDefer

\* an adapter was opened, lost, opened again by a repeated confirmation, and then
\* received a stop request and a timeout: only the lost signal has fired
C10_Witness ==
    \E a \in Adapters :
        /\ adapters[a].lostDefer = 1
        /\ adapters[a].failedDefer = 0
        /\ adapters[a].opens = 2
        /\ adapters[a].pLost = 2
        /\ raised = "AlreadyCalledError"

(* ======================= host-key trust decision ======================== *)
\* the label verifyHostKey computes from the client's hostname and port
currentLabel == hostLabel(hostname, port)

\* the record the stores hold for (label, keytype): the system store's, and the
\* local store's when the system store has none
held(label, keytype) ==
    IF system_host_keys[label][keytype] # NoKey
    THEN system_host_keys[label][keytype]
    ELSE host_keys[label][keytype]

storesUnchanged == system_host_keys' = system_host_keys /\ host_keys' = host_keys

policyNotInvoked ==
    /\ result'.policyCalls = 0
    /\ \A i \in 1..Len(result'.events) : result'.events[i] # "missing_host_key"

\* C1 as stated: whenever the system store or the local store holds a key for
\* (hostLabel, keyType) that differs from the presented key, verifyHostKey fails
\* with BadHostKeyException.
C1_AnyStoreMismatchFails ==
    [][\A s \in Sessions, k \in Keys :
         (/\ verifyHostKey(s, k)
          /\ \/ system_host_keys[currentLabel][k.type] \notin {NoKey, k}
             \/ host_keys[currentLabel][k.type] \notin {NoKey, k})
         => /\ result'.outcome = "fail"
            /\ result'.exc.type = "BadHostKeyException"]_vars

\* C1 amended: whenever the record found for (hostLabel, keyType), the system
\* store's or else the local store's, differs from the presented key, verifyHostKey
\* fails with BadHostKeyException carrying the hostname, the presented key and the
\* expected key; no store is mutated and the policy is not invoked, whichever
\* policy is installed.
C1_FoundMismatchFails ==
    [][\A s \in Sessions, k \in Keys :
         (/\ verifyHostKey(s, k)
          /\ held(currentLabel, k.type) \notin {NoKey, k})
         => /\ result'.outcome = "fail"
            /\ result'.exc = [type |-> "BadHostKeyException", hostname |-> hostname,
                              key |-> k, expected_key |-> held(currentLabel, k.type),
                              code |-> 0]
            /\ storesUnchanged
            /\ policyNotInvoked]_vars

\* a mismatch was reported for a key of the local store while AutoAddPolicy is installed
C1_Witness ==
    /\ result.op = "verifyHostKey"
    /\ result.exc.type = "BadHostKeyException"
    /\ missing_host_key_policy = "AutoAddPolicy"
    /\ result.exc.expected_key = host_keys[result.label][result.key.type]
    /\ system_host_keys[result.label][result.key.type] = NoKey

\* an earlier attempt for the same label was accepted by asking the policy about key k
acceptedByPolicy(label, k) ==
    \E s0 \in Sessions :
        /\ sessions[s0].phase = "verified"
        /\ sessions[s0].asked = 1
        /\ sessions[s0].key = k
        /\ hostLabel(sessions[s0].host, sessions[s0].port) = label

\* C2: with AutoAddPolicy and no record for (hostLabel, keyType) in either store,
\* verifyHostKey succeeds and the local store gains exactly the presented key under
\* (hostLabel, keyType); a later verifyHostKey of that key for the same host and
\* port succeeds without another call of the policy.
C2_AutoAddStoresKey ==
    [][\A s \in Sessions, k \in Keys :
         (verifyHostKey(s, k) /\ missing_host_key_policy = "AutoAddPolicy")
         => /\ (/\ system_host_keys[currentLabel][k.type] = NoKey
                /\ host_keys[currentLabel][k.type] = NoKey)
               => /\ result'.outcome = "succeed"
                  /\ result'.policyCalls = 1
                  /\ host_keys' = [host_keys EXCEPT ![currentLabel][k.type] = k]
                  /\ system_host_keys' = system_host_keys
            /\ acceptedByPolicy(currentLabel, k)
               => /\ result'.outcome = "succeed"
                  /\ policyNotInvoked
                  /\ storesUnchanged]_vars

\* the second attempt presented the key AutoAddPolicy had stored for the first
C2_Witness ==
    /\ missing_host_key_policy = "AutoAddPolicy"
    /\ result.op = "verifyHostKey"
    /\ result.session = 2
    /\ result.outcome = "succeed"
    /\ result.policyCalls = 0
    /\ sessions[1].phase = "verified"
    /\ sessions[1].asked = 1
    /\ sessions[1].key = result.key
    /\ hostLabel(sessions[1].host, sessions[1].port) = result.label

\* C3: RejectPolicy is the policy of a new client; with it and no record for
\* (hostLabel, keyType) in either store, verifyHostKey fails with
\* UnknownHostKeyException carrying the hostname and the presented key, and no
\* store is mutated.
C3_RejectFailsUnknown ==
    /\ missing_host_key_policy = "RejectPolicy"
    /\ [][\A s \in Sessions, k \in Keys :
            (/\ verifyHostKey(s, k)
             /\ missing_host_key_policy = "RejectPolicy"
             /\ system_host_keys[currentLabel][k.type] = NoKey
             /\ host_keys[currentLabel][k.type] = NoKey)
            => /\ result'.outcome = "fail"
               /\ result'.exc = [type |-> "UnknownHostKeyException",
                                 hostname |-> hostname, key |-> k,
                                 expected_key |-> NoKey, code |-> 0]
               /\ storesUnchanged]_vars

\* an unknown key was rejected although the stores hold a record of another type
C3_Witness ==
    /\ result.op = "verifyHostKey"
    /\ result.exc.type = "UnknownHostKeyException"
    /\ missing_host_key_policy = "RejectPolicy"
    /\ \E t \in KeyTypes : host_keys[result.label][t] # NoKey

\* C4 as stated: with WarningPolicy and no record for (hostLabel, keyType) in
\* either store, verifyHostKey succeeds: no error is raised, the transport is not
\* torn down and no store is mutated.
C4_WarningAccepts ==
    [][\A s \in Sessions, k \in Keys :
         (/\ verifyHostKey(s, k)
          /\ missing_host_key_policy = "WarningPolicy"
          /\ system_host_keys[currentLabel][k.type] = NoKey
          /\ host_keys[currentLabel][k.type] = NoKey)
         => /\ result'.outcome = "succeed"
            /\ sessions'[s].phase = "verified"
            /\ storesUnchanged]_vars

\* C5: the system store is consulted first and the local store only when the
\* system store has no key for (hostLabel, keyType); the first hit alone decides.
C5_SystemStoreFirst ==
    [][\A s \in Sessions, k \in Keys :
         verifyHostKey(s, k)
         => LET sys == system_host_keys[currentLabel][k.type]
                loc == host_keys[currentLabel][k.type]
            IN  /\ (sys # NoKey /\ sys = k) => result'.outcome = "succeed"
                /\ (sys # NoKey /\ sys # k)
                   => /\ result'.outcome = "fail"
                      /\ result'.exc.type = "BadHostKeyException"
                      /\ result'.exc.expected_key = sys
                /\ (sys = NoKey /\ loc # NoKey /\ loc = k) => result'.outcome = "succeed"
                /\ (sys = NoKey /\ loc # NoKey /\ loc # k)
                   => /\ result'.outcome = "fail"
                      /\ result'.exc.type = "BadHostKeyException"
                      /\ result'.exc.expected_key = loc
                /\ (sys # NoKey \/ loc # NoKey) => policyNotInvoked]_vars

\* the system record mismatched and decided, although the local store holds the
\* presented key
C5_Witness ==
    /\ result.op = "verifyHostKey"
    /\ result.exc.type = "BadHostKeyException"
    /\ result.exc.expected_key = system_host_keys[result.label][result.key.type]
    /\ host_keys[result.label][result.key.type] = result.key

position(events, e) ==
    IF \E i \in 1..Len(events) : events[i] = e
    THEN CHOOSE i \in 1..Len(events) : events[i] = e
    ELSE 0

\* C8: a failed verification (unknown key rejected, or mismatch) has delivered
\* transport.connectionLost with that failure before verifyHostKey returns its
\* failed result, and the connection is gone; a successful verification makes no
\* call on the transport.
C8_TeardownBeforeFailure ==
    result.op = "verifyHostKey"
    => LET s == result.session
           ev == result.events
       IN  /\ result.outcome = "fail"
              => /\ result.exc.type \in {"UnknownHostKeyException", "BadHostKeyException"}
                 /\ position(ev, "transport.connectionLost") > 0
                 /\ position(ev, "transport.connectionLost") < position(ev, "fail")
                 /\ position(ev, "fail") = Len(ev)
                 /\ sessions[s].phase = "lost"
                 /\ sessions[s].reason = result.exc.type
           /\ result.outcome = "succeed"
              => /\ position(ev, "transport.connectionLost") = 0
                 /\ sessions[s].phase = "verified"
                 /\ sessions[s].reason = "none"

\* a rejected unknown key tore the connection down and the failure callback heard of it
C8_Witness ==
    /\ result.op = "verifyHostKey"
    /\ result.outcome = "fail"
    /\ result.exc.type = "UnknownHostKeyException"
    /\ sessions[result.session].phase = "lost"
    /\ sessions[result.session].eb = <<"UnknownHostKeyException">>

(* ========================= session life cycle =========================== *)
\* the session of the latest connect()
currentSession == Cardinality(usedSessions)

\* C6 as stated: with both callbacks registered, exactly one of them is invoked,
\* exactly once, for every outcome of a session (service start; TCP connect
\* failure, host-key rejection, authentication exhaustion, remote disconnect):
\* never both, never neither, never one of them twice.
C6_ExactlyOneCallback ==
    (callback /\ errback)
    => \A s \in Sessions :
          /\ sessions[s].cb + Len(sessions[s].eb) <= 1
          /\ sessions[s].phase \in {"started", "failed", "lost"}
             => sessions[s].cb + Len(sessions[s].eb) = 1

\* C7 as stated: when an attempt reaches a server whose host key mismatches the
\* record pre-loaded in the local store for the host and port of its connect(),
\* the failure callback is invoked exactly once with BadHostKey, the success
\* callback never, the connection is torn down, and verification starts no new
\* connection attempt.
C7_MismatchFailsOnce ==
    /\ \A s \in Sessions :
          LET label == hostLabel(sessions[s].host, sessions[s].port)
              k == sessions[s].key
          IN  (/\ k # NoKey
               /\ system_host_keys[label][k.type] = NoKey
               /\ host_keys[label][k.type] \notin {NoKey, k}
               /\ errback)
              => /\ sessions[s].eb = <<"BadHostKeyException">>
                 /\ sessions[s].cb = 0
                 /\ sessions[s].phase = "lost"
    /\ result.op = "verifyHostKey" => position(result.events, "connectTCP") = 0

\* C9 as stated: close() returns without an error in every state, and when the
\* transport of the current session has been secured, close() asks it to lose its
\* connection.
C9_CloseAsksCurrentTransport ==
    result.op = "close"
    => /\ result.outcome = "return"
       /\ (/\ currentSession > 0
           /\ sessions[currentSession].phase \in {"auth", "started"})
          => sessions[currentSession].loseAsked

(* ======================= adapter failure and loss ======================= *)
\* adapter a has been created and no protocol was ever built for it
notOpened(a) == adapters[a].created /\ adapters[a].pMade = 0

\* this step delivers the one connectionFailed of adapter a, with error err, or,
\* when it was delivered before, changes nothing and notifies nobody
failsOnce(a, err) ==
    IF adapters[a].nFailed = 0
    THEN adapters'[a].nFailed = 1 /\ adapters'[a].failure = err
    ELSE adapters' = adapters /\ connector' = connector /\ parent' = parent

\* C11: for an adapter that has not opened, every failure trigger (openFailed,
\* stopConnecting, the connector's timeout, loseConnection, connectionLost)
\* delivers the one connectionFailed to the connector with the error of the first
\* trigger, and every later trigger changes no state and notifies nobody.
C11_FirstTriggerFails ==
    [][\A a \in Adapters, env \in Envs :
          notOpened(a) =>
              /\ openFailed(a, env) => failsOnce(a, "ConnectError")
              /\ stopConnecting(a, env) => failsOnce(a, "UserError")
              /\ timeout(a, env) => failsOnce(a, "TimeoutError")
              /\ (\E ok \in BOOLEAN : loseConnection(a, ok, env))
                     => failsOnce(a, "ConnectError")
              /\ channelConnectionLost(a, env) => failsOnce(a, "ConnectError")]_vars

\* the calls a close of an open adapter makes, without and with the protocol
\* calling loseConnection() from its connectionLost
ClosedOnce ==
    {<<"protocol.connectionLost", "connector.connectionLost">>,
     <<"protocol.connectionLost", "loseConnection", "connector.connectionLost">>}

\* C12: when an open adapter is closed, the protocol's connectionLost is called
\* exactly once and before the connector's connectionLost, which is called exactly
\* once too, whatever close triggers (eofReceived, loseConnection, connectionLost)
\* follow and also when the protocol calls loseConnection from its connectionLost.
C12_ProtocolThenConnectorOnce ==
    \A a \in Adapters :
        /\ adapters[a].nLost = adapters[a].pLost
        /\ adapters[a].pLost <= adapters[a].pMade
        /\ adapters[a].connected = 1 => adapters[a].notes = <<>>
        /\ adapters[a].disconnected = 1 => adapters[a].notes \in ClosedOnce
        /\ adapters[a].pMade = 0 => adapters[a].notes = <<>>

\* an adapter was opened once and closed, and its protocol called loseConnection
\* from inside connectionLost
C12_Witness ==
    \E a \in Adapters :
        /\ adapters[a].pMade = 1
        /\ adapters[a].disconnected = 1
        /\ adapters[a].lostDefer = 1
        /\ adapters[a].notes =
               <<"protocol.connectionLost", "loseConnection", "connector.connectionLost">>

\* adapter a failed to open because of a stop request
stoppedWhileOpening(a) == adapters[a].nFailed = 1 /\ adapters[a].failure = "UserError"

\* C13: when stopConnecting has failed an adapter and the connection afterwards
\* confirms the open (channelOpen), the adapter does not become open, no protocol
\* is built or connected, and no signal and no connector or factory notification
\* fires again.
C13_NoOpenAfterStop ==
    [][\A a \in Adapters :
          stoppedWhileOpening(a) /\ channelOpen(a) =>
              /\ adapters'[a] = [adapters[a] EXCEPT !.opens = @ + 1]
              /\ adapters'[a].connected = 0 /\ adapters'[a].protocol = "None"
              /\ connector' = connector
              /\ parent' = parent]_vars

\* the open of an adapter failed by a stop request was confirmed afterwards
C13_Witness ==
    \E a \in Latest :
        /\ stoppedWhileOpening(a)
        /\ adapters[a].opens > 0
        /\ adapters[a].connected = 0
        /\ raised = "AttributeError"

\* adapter a is opening: created, neither open nor closed nor failed
opening(a) ==
    /\ adapters[a].created
    /\ adapters[a].connected = 0
    /\ adapters[a].disconnected = 0
    /\ adapters[a].nFailed = 0

\* the adapter after failIfNotConnected failed it with error err
failedWith(a, err) ==
    [adapters[a] EXCEPT !.connector = FALSE, !.nFailed = 1, !.failedDefer = 1,
                        !.failure = err]

\* C15: stopConnecting takes effect only while the adapter is opening, where it
\* fails the adapter with one connect failure carrying a user-cancel error; on an
\* open, disconnected or failed adapter it changes no state variable and notifies
\* no protocol, connector or factory.
C15_StopOnlyWhileOpening ==
    [][\A a \in Adapters, env \in Reentering :
          stopConnecting(a, env) =>
              IF opening(a)
              THEN /\ adapters'[a] = failedWith(a, "UserError")
                   /\ connector'.state = "disconnected"
              ELSE /\ adapters' = adapters
                   /\ connector' = connector
                   /\ parent' = parent
                   /\ raised' = "none"]_vars

\* a stop request has failed an opening adapter
C15_Witness ==
    \E a \in Latest :
        /\ adapters[a].failure = "UserError"
        /\ adapters[a].nFailed = 1
        /\ adapters[a].failedDefer = 1
        /\ ~adapters[a].connector
        /\ connector.state = "disconnected"

\* C16: when the connector's timeout elapses while the adapter is opening, the
\* attempt fails as it does on a remote refusal of the open (openFailed): the
\* adapter is failed, the factory receives exactly one clientConnectionFailed and
\* the failed signal fires once; a timeout on an open, disconnected or failed
\* adapter has no effect.
C16_TimeoutFailsLikeRefusal ==
    [][\A a \in Adapters, env \in Reentering :
          timeout(a, env) =>
              IF opening(a)
              THEN LET refused == failIfNotConnected(world(a, env), "ConnectError")
                   IN  /\ adapters'[a] = [refused.ad EXCEPT !.failure = "TimeoutError"]
                       /\ connector' = refused.c
                       /\ parent' = refused.parent
                       /\ adapters'[a].nFailed = 1
                       /\ adapters'[a].failedDefer = 1
              ELSE /\ adapters' = adapters
                   /\ connector' = connector
                   /\ parent' = parent
                   /\ raised' = "none"]_vars

\* the timeout has failed an opening adapter
C16_Witness ==
    \E a \in Latest :
        /\ adapters[a].failure = "TimeoutError"
        /\ adapters[a].nFailed = 1
        /\ adapters[a].failedDefer = 1
        /\ adapters[a].connected = 0
        /\ connector.state = "disconnected"

(* ================== propagation into the parent connection ============== *)
\* the adapters that have signalled a loss, and those that have signalled a failure
lostAdapters == {a \in Adapters : adapters[a].nLost > 0}
failedAdapters == {a \in Adapters : adapters[a].nFailed > 0}

\* C17: with loseconnection_on_protocollose set, an adapter that signals the loss
\* of its connection makes the parent connection receive exactly one
\* loseConnection call, also when the loss is signalled to the adapter twice.
C17_LossPropagatesOnce ==
    connector.loseconnection_on_protocollose =>
        parent.loseConnection =
            Cardinality(lostAdapters)
            + (IF connector.loseconnection_on_protocolfailed
               THEN Cardinality(failedAdapters) ELSE 0)

\* the loss of one adapter reached connectionLostDefer twice and the parent
\* connection was asked once
C17_Witness ==
    /\ connector.loseconnection_on_protocollose
    /\ createdAdapters = {1}
    /\ adapters[1].nLost = 2
    /\ parent.loseConnection = 1

\* C18: over the whole life of one connector, repeated connect() attempts with
\* new adapters included and with either or both flags set, the propagation into
\* the parent connection (transportProtocolDisconnected calling
\* connection.loseConnection) fires at most once.
C18_PropagatesAtMostOnce == parent.loseConnection <= 1

\* C19: the propagation step (transportProtocolDisconnected) swallows every error
\* raised while it runs: whether connection.loseConnection() raises or
\* factory.stopTrying() raises or is missing, no error leaves the step and the
\* rest of the step is still carried out.
C19_NoErrorEscapes ==
    /\ ~parent.escaped
    /\ parent.stopTrying = parent.loseConnection

\* C20: with both propagation flags left False no failure and no loss of an
\* adapter calls loseConnection on the parent connection or stopTrying on the
\* factory; with one flag set only the matching event propagates (the loss for
\* loseconnection_on_protocollose, the failed open for
\* loseconnection_on_protocolfailed).
C20_OnlyConfiguredPropagation ==
    LET onLose == connector.loseconnection_on_protocollose
        onFailed == connector.loseconnection_on_protocolfailed
    IN  /\ ~onLose /\ ~onFailed => parent = NoParent
        /\ onLose /\ ~onFailed =>
               /\ parent.loseConnection = Cardinality(lostAdapters)
               /\ parent.stopTrying = Cardinality(lostAdapters)
        /\ ~onLose /\ onFailed =>
               /\ parent.loseConnection = Cardinality(failedAdapters)
               /\ parent.stopTrying = Cardinality(failedAdapters)

\* only the flag for a failed open is set, an adapter has lost its connection
\* and none has failed: the parent connection was not touched
C20_Witness ==
    /\ ~connector.loseconnection_on_protocollose
    /\ connector.loseconnection_on_protocolfailed
    /\ lostAdapters # {}
    /\ failedAdapters = {}
    /\ parent = NoParent

(* ============================ adapter data ============================== *)
\* C14: while the adapter is open every received chunk is passed unchanged to the
\* protocol's dataReceived; in every other state (opening, failed to open,
\* disconnected) the chunk is dropped silently: nothing is delivered, no error is
\* raised and the adapter's state is unchanged.
C14_DataOnlyWhileOpen ==
    [][\A a \in Adapters, data \in Chunks :
          dataReceived(a, data) =>
              /\ raised' = "none"
              /\ adapters' = adapters
              /\ delivered' = IF adapters[a].connected = 1 THEN <<data>> ELSE <<>>]_vars

(* ========================= close and reuse ========================= *)
\* C28: a close() called after connect() and before the transport is secure is not
\* lost: the transport of that session is terminated, at once or as soon as it
\* becomes secure, and the session neither authenticates nor fires the success
\* callback.
C28_EarlyCloseNotLost ==
    \A s \in Sessions :
        sessions[s].closedEarly =>
            /\ sessions[s].phase \in {"auth", "started"} => sessions[s].loseAsked
            /\ sessions[s].cb = 0

\* C29: on a reused client close() terminates every transport that has registered
\* for the close request and is still alive, in particular the transport of the
\* current session, also when an earlier transport registered before it.
C29_CloseReachesEveryTransport ==
    [][closeRequest # <<>> /\ closeRequest' = <<>> =>
          \A i \in 1..Len(closeRequest) :
              sessions[closeRequest[i]].phase \in {"auth", "started"} =>
                  sessions'[closeRequest[i]].loseAsked]_vars

\* C30: each attempt uses the parameters of the connect() call that created it: its
\* server key is verified under the host label of that call, also when connect()
\* was called again before the verification.
C30_AttemptKeepsItsParameters ==
    [][\A s \in Sessions, k \in Keys :
          verifyHostKey(s, k) =>
              result'.label = hostLabel(sessions[s].host, sessions[s].port)]_vars

(* ========================= end of the parent connection ========================= *)
\* C26: an Open adapter reaches Disconnected, with its protocol notified of
\* connectionLost, on eofReceived, on loseConnection and when the parent connection
\* is lost and closes all its channels: once the connection has closed the channel,
\* no adapter is left Open with a protocol that was not told connectionLost.
C26_NoOpenAdapterWithoutParent ==
    \A a \in Adapters :
        adapters[a].engineClosed =>
            /\ adapters[a].connected = 0
            /\ adapters[a].pLost = adapters[a].pMade

(* ========================= the open request ========================= *)
openRequests(a) ==
    Cardinality({i \in 1..Len(adapters[a].log) : adapters[a].log[i] = "openChannel"})

\* C27 as stated: creating an adapter never issues openChannel synchronously, the
\* request is made on a later scheduler turn, after connect() has returned and
\* factory.startedConnecting was called, and exactly one open request is issued
\* per adapter.
C27_ExactlyOneOpenRequest ==
    \A a \in Adapters :
        adapters[a].created =>
            /\ SubSeq(adapters[a].log, 1, 2) = <<"_makeTransport", "startedConnecting">>
            /\ adapters[a].scheduled => openRequests(a) = 0
            /\ ~adapters[a].scheduled => openRequests(a) = 1

\* C27 amended: creating an adapter never issues openChannel synchronously, the
\* request is made only on the later scheduler turn, after connect() has returned
\* and factory.startedConnecting was called; at most one open request is issued
\* per adapter, and none when the attempt was failed before its scheduler turn.
C27_AtMostOneOpenRequest ==
    [][\A a \in Adapters :
          LET was == adapters[a]
              now == adapters'[a]
          IN  /\ ~was.created /\ now.created =>
                    /\ now.scheduled /\ ~now.requested
                    /\ now.log = <<"_makeTransport", "startedConnecting">>
              /\ ~was.requested /\ now.requested =>
                    /\ was.scheduled /\ ~now.scheduled
                    /\ was.log = <<"_makeTransport", "startedConnecting">>
                    /\ now.log = Append(was.log, "openChannel")
              /\ was.requested => now.log = was.log
              /\ was.scheduled /\ was.nFailed > 0 => ~now.requested]_vars

\* an attempt stopped before its scheduler turn has had its turn without a request,
\* and the attempt after it has issued its one request
C27_Witness ==
    /\ adapters[1].nFailed = 1 /\ ~adapters[1].scheduled /\ openRequests(1) = 0
    /\ adapters[2].requested /\ openRequests(2) = 1

(* ========================= persistence of the local store ========================= *)
\* C24: whenever AutoAddPolicy accepts an unknown host key the local store is also
\* saved: when the verification has returned, the store contents last written to
\* the local host-key file equal the local store in memory, which holds the new
\* (hostLabel, keyType, key) record.
C24_AutoAddSaves ==
    /\ result.op = "verifyHostKey"
    /\ result.outcome = "succeed"
    /\ result.policyCalls = 1
    /\ missing_host_key_policy = "AutoAddPolicy"
    => /\ host_keys[result.label][result.key.type] = result.key
       /\ result.saves # <<>>
       /\ result.saves[Len(result.saves)] = host_keys

(* ========================= factory handlers ========================= *)
baseHandlers == {"super.clientConnectionLost", "super.clientConnectionFailed"}

\* C25: whenever the failure callback is invoked for a lost or failed transport
\* connection it is invoked before the base factory's clientConnectionLost /
\* clientConnectionFailed handles that event, and the base method is always invoked
\* afterwards, also without a failure callback and for a reason that is no SSH error.
C25_ErrbackBeforeBase ==
    LET ev == result.events
        bases == {j \in 1..Len(ev) : ev[j] \in baseHandlers}
    IN  /\ result.op = "connectionLost" =>
               bases = {Len(ev)} /\ ev[Len(ev)] = "super.clientConnectionLost"
        /\ result.op = "connectionFailed" =>
               bases = {Len(ev)} /\ ev[Len(ev)] = "super.clientConnectionFailed"
        /\ (\E i \in 1..Len(ev) : ev[i] = "transport.connectionLost") =>
               Cardinality(bases) = 1
        /\ \A i \in 1..Len(ev) : ev[i] \in {"processErrback", "errback"} =>
               \A j \in bases : i < j

\* the failure callback has run for a lost connection and the base method after it
C25_Witness ==
    LET ev == result.events
    IN  /\ Len(ev) >= 3
        /\ ev[Len(ev) - 1] = "errback"
        /\ ev[Len(ev)] = "super.clientConnectionLost"

(* ========================= SSHUserAuthClient ========================= *)
\* SSHUserAuthClient.collect_keys: the explicit key, the keys of key_filenames,
\* then, with look_for_keys, the keys found in the home directory
collect_keys(pkey, fileKeys, look_for_keys, homeKeys) ==
    (IF pkey # NoPKey THEN <<pkey>> ELSE <<>>)
        \o fileKeys
        \o (IF look_for_keys THEN homeKeys ELSE <<>>)

\* itertools.cycle.next() for a position in a non-empty sequence of length n
cycleNext_Sticks(i, n) == IF i = n THEN n ELSE i + 1

cycleNext(i, n) == IF i = n THEN 1 ELSE i + 1

\* SSHUserAuthClient.__init__
construct ==
    /\ ~auth.made
    /\ \E pkey \in PrivateKeys \cup {NoPKey}, fileKeys \in KeyFiles,
          look_for_keys \in BOOLEAN, homeKeys \in KeyFiles, password \in Passwords :
           auth' = [NoAuth EXCEPT
               !.made = TRUE,
               !.password = password,
               !.found_keys = collect_keys(pkey, fileKeys, look_for_keys, homeKeys)]
    /\ UNCHANGED <<clientVars, adapterVars>>

\* SSHUserAuthClient.getPublicKey
getPublicKey ==
    /\ auth.made
    /\ auth.calls < MaxCalls
    /\ IF auth.found_keys = <<>>
       THEN auth' = [auth EXCEPT !.calls = @ + 1, !.op = "getPublicKey",
                                 !.returned = plain(NoPKey), !.lastPublic = NoPKey]
       ELSE LET n == Len(auth.found_keys)
                i == auth.found_keys_iter
                key == auth.found_keys[i]
            IN  auth' = [auth EXCEPT !.calls = @ + 1, !.op = "getPublicKey",
                                     !.found_keys_iter = cycleNext(i, n),
                                     !.current_pkey = key,
                                     !.returned = plain(public(key)),
                                     !.lastPublic = public(key)]
    /\ UNCHANGED <<clientVars, adapterVars>>

\* the cursor after SSHUserAuthClient.getPrivateKey
privateCursor_Advances(u) == cycleNext(u.found_keys_iter, Len(u.found_keys))

privateCursor(u) == u.found_keys_iter

\* SSHUserAuthClient.getPrivateKey
getPrivateKey ==
    /\ auth.made
    /\ auth' = [auth EXCEPT
           !.op = "getPrivateKey",
           !.found_keys_iter = privateCursor(auth),
           !.returned = IF auth.current_pkey = NoPKey
                        THEN plain(NoPKey)
                        ELSE succeed(auth.current_pkey)]
    /\ UNCHANGED <<clientVars, adapterVars>>

\* SSHUserAuthClient.getPassword
getPassword ==
    /\ auth.made
    /\ auth' = [auth EXCEPT
           !.op = "getPassword",
           !.returned = IF auth.password \notin {"none", ""}
                        THEN succeed(auth.password)
                        ELSE plain("none")]
    /\ UNCHANGED <<clientVars, adapterVars>>

NextAuth == construct \/ getPublicKey \/ getPrivateKey \/ getPassword

SpecAuth == Init /\ [][NextAuth]_vars

\* C22: with N >= 1 collected keys the k-th getPublicKey call returns the public
\* half of collected key number (k-1) mod N in collection order, without ever
\* running out; with no collected key every call returns none.
C22_PublicKeysRotate ==
    auth.op = "getPublicKey" =>
        LET n == Len(auth.found_keys)
        IN  /\ ~auth.returned.deferred
            /\ auth.returned.value =
                   IF n = 0 THEN NoPKey
                   ELSE public(auth.found_keys[((auth.calls - 1) % n) + 1])

\* call N+1 on N >= 2 collected keys has returned the first key's public half again
C22_Witness ==
    /\ auth.op = "getPublicKey"
    /\ Len(auth.found_keys) >= 2
    /\ auth.calls = Len(auth.found_keys) + 1
    /\ auth.found_keys[1] # auth.found_keys[Len(auth.found_keys)]
    /\ auth.returned = plain(public(auth.found_keys[1]))

\* C23: getPrivateKey returns the private key whose public half the most recent
\* getPublicKey call returned, and none when no candidate has been selected;
\* getPrivateKey and getPassword never advance the rotation cursor.
C23_PrivateKeyMatchesSelection ==
    [][/\ auth'.op \in {"getPrivateKey", "getPassword"} =>
            /\ auth'.found_keys_iter = auth.found_keys_iter
            /\ auth'.current_pkey = auth.current_pkey
            /\ auth'.lastPublic = auth.lastPublic
       /\ auth'.op = "getPrivateKey" =>
            IF auth.lastPublic = NoPKey
            THEN auth'.returned = plain(NoPKey)
            ELSE /\ auth'.returned.deferred
                 /\ auth'.returned.value \in PrivateKeys
                 /\ public(auth'.returned.value) = auth.lastPublic]_vars

\* a private key has been handed out after at least two getPublicKey calls
C23_Witness ==
    /\ auth.op = "getPrivateKey"
    /\ auth.calls >= 2
    /\ auth.returned.deferred
    /\ public(auth.returned.value) = auth.lastPublic

(* ========================= reconnecting factory ========================= *)
\* C21: with a propagation flag set and a reconnecting factory, once the matching
\* adapter event has propagated, the retry the factory scheduled in
\* clientConnectionLost / clientConnectionFailed is cancelled by the stopTrying
\* issued afterwards: no retry stays scheduled and no new adapter is created.
C21_PropagationStopsRetry == parent.loseConnection > 0 => ~parent.retry

(* ========================= cancelled attempt ========================= *)
\* C31: an attempt cancelled before its scheduled open request has run leaves
\* nothing behind: when stopConnecting or the timeout has failed the adapter before
\* the scheduler turn that runs _connect, that turn sends no open request and
\* raises no error, and the factory has received exactly one clientConnectionFailed.
C31_CancelledTurnIsSilent ==
    [][\A a \in Adapters :
          (/\ adapters[a].scheduled
           /\ ~adapters'[a].scheduled
           /\ adapters[a].failure \in {"UserError", "TimeoutError"})
          => /\ ~adapters'[a].requested
             /\ openRequests(a)' = 0
             /\ raised' = "none"
             /\ adapters'[a].nFailed = 1]_vars

====
